---- MODULE Spec2Model ----
(***************************************************************************)
(* VisionSpeak: the word/progress store (better-sqlite3), the three        *)
(* Express routes over it, the client calls saveWord / fetchHistory, and   *)
(* the client's video, screenshot-scan and speech handlers.                *)
(*                                                                         *)
(* The server is one Node.js process: a route handler is synchronous and   *)
(* runs to completion, so no other handler starts while one is between     *)
(* its statements.  The wall clock and the storage medium are outside the  *)
(* process and may change between two statements of one handler.           *)
(***************************************************************************)
EXTENDS Integers, Sequences, FiniteSets, TLC

(* ------------------------------ bounds -------------------------------- *)

\* Requests issued over the lifetime of a run.
MaxReqs == 3

\* Last second on the wall clock (CURRENT_TIMESTAMP and datetime('now') have
\* a resolution of one second).
MaxTime == 1

(* ------------------------------ values -------------------------------- *)

\* JSON null / SQL NULL in a text column.
Null == "<null>"

\* A key absent from the JSON body: destructuring yields undefined.
Undefined == "<undefined>"

\* SQL NULL in a DATETIME column.
NullTime == -1

\* The body of POST /api/words as destructured by the handler.
Body(w, cs, m, us, uk, img) ==
  [word |-> w, context_sentence |-> cs, meaning |-> m,
   phonetic_us |-> us, phonetic_uk |-> uk, image_url |-> img]

\* A GET carries no body.
NoBody == Body(Undefined, Undefined, Undefined, Undefined, Undefined, Undefined)

\* Bodies a direct caller of the HTTP API sends with a surface text.
ApiBodies == { Body("cat", "ctx", "mean", "us", "uk", "img") }

\* Bodies whose surface text is empty, null or missing.
BlankBodies ==
  { Body(w, "ctx", "mean", "us", "uk", "img") : w \in {"", Null, Undefined} }

\* WordRecord values the client holds (an AI analysis plus image_url).
Analysis(w, m, ce, us, uk, ip, img) ==
  [word |-> w, meaning |-> m, context_explanation |-> ce,
   phonetic_us |-> us, phonetic_uk |-> uk, image_prompt |-> ip, image_url |-> img]

ClientWords == { Analysis("dog", "hound", "why", "dUs", "dUk", "a dog", "data:dog") }

\* selectedWord === null.
NoWord == Analysis(Null, Null, Null, Null, Null, Null, Null)

\* A handler of the video tab and the argument it was called with.
Event(name, arg) == [name |-> name, arg |-> arg]

\* Response bodies.
Resp(k, rows, id, n) == [kind |-> k, rows |-> rows, id |-> id, totalWords |-> n]
NoResp    == Resp("none", <<>>, 0, 0)
ErrorPage == Resp("error", <<>>, 0, 0)

(* ------------------------------ state --------------------------------- *)

VARIABLES
  words,      \* table words, in rowid order
  progress,   \* table progress, in rowid order
  wordsSeq,   \* sqlite_sequence entry of words (AUTOINCREMENT)
  progressSeq,\* sqlite_sequence entry of progress
  now,        \* wall clock, in seconds
  storageUp,  \* whether the database file can be read and written
  reverseTies,\* the engine's scan direction, which decides the order of ties
  reqs,       \* every HTTP request issued so far, in order of issue
  history,    \* client state `history`
  videoUrl,           \* client state `videoUrl`
  isVideoProcessing,  \* client state `isVideoProcessing`
  videoSubtitles,     \* client state `videoSubtitles`
  currentSubIndex,    \* client state `currentSubIndex` (0-based, as in the code)
  videoCall,          \* the last processVideoUrl call: none, pending, resolved, rejected
  event,              \* history: the handler of the video tab that ran last
  selectedWord,       \* client state `selectedWord`
  isAnalyzingWord,    \* client state `isAnalyzingWord`
  isPaused,           \* client state `isPaused`
  clicks,             \* every click on a subtitle word so far, in order
  isScanning,         \* client state `isScanning`
  results,            \* client state `results`
  scans,              \* every screenshot scan started so far, in order of the pick
  isPlaying,          \* client state `isPlaying`
  isLooping,          \* client state `isLooping`
  accent,             \* client state `accent`
  playbackSpeed,      \* client state `playbackSpeed`, in percent
  speech              \* playAudio calls awaiting generateSpeech or playing their audio

store == <<words, progress, wordsSeq, progressSeq>>

word == <<selectedWord, isAnalyzingWord, isPaused, clicks>>

video == <<videoUrl, isVideoProcessing, videoSubtitles, currentSubIndex, videoCall,
           event, word>>

scan == <<isScanning, results, scans>>

audio == <<isPlaying, isLooping, accent, playbackSpeed, speech>>

ui == <<video, scan, audio>>

vars == <<words, progress, wordsSeq, progressSeq, now, storageUp, reverseTies,
          reqs, history, ui>>

(* --------------------------- pure helpers ----------------------------- *)

Reverse(s) == [i \in 1..Len(s) |-> s[Len(s) + 1 - i]]

\* Place row x in t (sorted by created_at, descending) behind every row that
\* does not sort after it: rows with equal keys keep their scan order.
InsertDesc(t, x) ==
  LET k == Cardinality({i \in 1..Len(t) : t[i].created_at >= x.created_at})
  IN  SubSeq(t, 1, k) \o <<x>> \o SubSeq(t, k + 1, Len(t))

RECURSIVE SortDesc(_)
SortDesc(s) ==
  IF s = <<>> THEN <<>>
  ELSE InsertDesc(SortDesc(SubSeq(s, 1, Len(s) - 1)), s[Len(s)])

\* Variant: the query paginated (LIMIT 1).
ListWordsLimit(ws, rev) ==
  LET all == SortDesc(IF rev THEN Reverse(ws) ELSE ws)
  IN  SubSeq(all, 1, IF Len(all) > 1 THEN 1 ELSE Len(all))

\* Variant: ORDER BY created_at ASC.
ListWordsAscending(ws, rev) ==
  Reverse(SortDesc(IF rev THEN Reverse(ws) ELSE ws))

\* SELECT * FROM words ORDER BY created_at DESC: the rows sorted by created_at,
\* rows of equal created_at in the order the engine scans the table (by rowid,
\* ascending or descending; SQL leaves the order of ties to the engine).
ListWords(ws, rev) ==
  SortDesc(IF rev THEN Reverse(ws) ELSE ws)

\* Variant: the count taken from progress.
CountWordsWrongTable(ws) == Len(progress)

\* SELECT COUNT(*) as count FROM words

CountWords(ws) == Len(ws)

\* Variant: the last rowid handed out again.
NextRowidReuse(seq) == IF seq = 0 THEN 1 ELSE seq

\* INTEGER PRIMARY KEY AUTOINCREMENT: one more than the largest rowid ever used.

NextRowid(seq) == seq + 1

\* The values bound to the INSERT's parameters; better-sqlite3 binds numbers,
\* strings, bigints, buffers and null, and throws a TypeError on undefined.
Bindable(b) ==
  \A f \in DOMAIN b : b[f] # Undefined

\* Variant: words.word declared TEXT NOT NULL UNIQUE.
NotNullUnique(b) ==
  /\ b.word # Null
  /\ \A i \in 1..Len(words) : words[i].word # b.word

\* words.word is TEXT NOT NULL; every other column is nullable, and no column
\* but the primary key is unique.
NotNullOk(b) == b.word # Null

\* Variant: INSERT OR REPLACE over a unique surface text.
InsertOrReplaceWord(ws, row) ==
  Append(SelectSeq(ws, LAMBDA w : w.word # row.word), row)

\* INSERT INTO words: a new row behind the existing ones.
InsertWord(ws, row) == Append(ws, row)

\* Variant: the two phonetic fields exchanged.
SaveBodySwapped(w) ==
  Body(w.word, w.context_explanation, w.meaning, w.phonetic_uk, w.phonetic_us,
       w.image_url)

\* saveWord's JSON body: the fields of the WordRecord, context_explanation
\* renamed to context_sentence.
SaveBody(w) ==
  Body(w.word, w.context_explanation, w.meaning, w.phonetic_us, w.phonetic_uk,
       w.image_url)

(* ----------------------------- requests ------------------------------- *)

Request(from, method, path, body) ==
  [from |-> from, method |-> method, path |-> path, body |-> body,
   state |-> "sent", status |-> 0, resp |-> NoResp,
   info |-> 0,       \* the handler's local `info.lastInsertRowid`
   attempts |-> 0,   \* history: how many times a handler was run for it
   seq |-> 0]        \* history: sqlite_sequence of words when a list was read

IsList(q)   == q.method = "GET"  /\ q.path = "/api/words"
IsCreate(q) == q.method = "POST" /\ q.path = "/api/words"
IsStats(q)  == q.method = "GET"  /\ q.path = "/api/stats"

R == DOMAIN reqs

\* Express calls the route's handler for the request.
Start(q) == [q EXCEPT !.attempts = @ + 1]

\* Variant: the request is queued again after a throw.
ThrowRetry(q) == [q EXCEPT !.state = "sent"]

\* A handler that threw: Express's default error handler answers 500 with an
\* HTML page; the request is not run again.

Throw(q) ==
  [q EXCEPT !.state = "replied", !.status = 500, !.resp = ErrorPage]

\* res.json(resp)
Reply(q, resp) ==
  [q EXCEPT !.state = "replied", !.status = 200, !.resp = resp]

\* Variant: a handler that yields between its statements (an await).
EventLoopInterleaved == TRUE

\* Node runs one callback at a time and the handlers never await: a handler
\* starts only when no other handler is between its statements.

EventLoopIdle == \A r \in R : reqs[r].state # "running"

\* POSTs from saveWord whose continuation will still issue a GET.
OpenSaves == Cardinality({r \in R : reqs[r].from = "saveWord"
                                     /\ reqs[r].state \in {"sent", "running", "replied"}})

Room(n) == Len(reqs) + OpenSaves + n <= MaxReqs

(* ------------------------------- Init --------------------------------- *)

Init ==
  /\ words = <<>>
  /\ progress = <<>>
  /\ wordsSeq = 0
  /\ progressSeq = 0
  /\ now = 0
  /\ storageUp = TRUE
  /\ reverseTies \in BOOLEAN
  /\ reqs = <<>>
  /\ history = <<>>
  /\ videoUrl = ""
  /\ isVideoProcessing = FALSE
  /\ videoSubtitles = <<>>
  /\ currentSubIndex = 0
  /\ videoCall = "none"
  /\ event = Event("none", 0)
  /\ selectedWord = NoWord
  /\ isAnalyzingWord = FALSE
  /\ isPaused = FALSE
  /\ clicks = <<>>
  /\ isScanning = FALSE
  /\ results = <<>>
  /\ scans = <<>>
  /\ isPlaying = FALSE
  /\ isLooping = FALSE
  /\ accent = "US"
  /\ playbackSpeed = 100
  /\ speech = <<>>

(* --------------------------- environment ------------------------------ *)

\* The wall clock reaches the next second.
Tick ==
  /\ now < MaxTime
  /\ now' = now + 1
  /\ UNCHANGED <<store, storageUp, reverseTies, reqs, history, ui>>

\* The database file becomes unavailable (I/O error, full disk, lock).
StorageFail ==
  /\ storageUp
  /\ storageUp' = FALSE
  /\ UNCHANGED <<store, now, reverseTies, reqs, history, ui>>

StorageRecover ==
  /\ ~storageUp
  /\ storageUp' = TRUE
  /\ UNCHANGED <<store, now, reverseTies, reqs, history, ui>>

(* ------------------------------ callers ------------------------------- *)

\* A direct caller of the HTTP API issues one of the three requests.
ApiListWords ==
  /\ Room(1)
  /\ reqs' = Append(reqs, Request("api", "GET", "/api/words", NoBody))
  /\ UNCHANGED <<store, now, storageUp, reverseTies, history, ui>>

ApiCreateWord ==
  /\ Room(1)
  /\ \E b \in ApiBodies :
       reqs' = Append(reqs, Request("api", "POST", "/api/words", b))
  /\ UNCHANGED <<store, now, storageUp, reverseTies, history, ui>>

ApiCreateBlank ==
  /\ Room(1)
  /\ \E b \in BlankBodies :
       reqs' = Append(reqs, Request("api", "POST", "/api/words", b))
  /\ UNCHANGED <<store, now, storageUp, reverseTies, history, ui>>

ApiGetStats ==
  /\ Room(1)
  /\ reqs' = Append(reqs, Request("api", "GET", "/api/stats", NoBody))
  /\ UNCHANGED <<store, now, storageUp, reverseTies, history, ui>>

(* ------------------------------- server ------------------------------- *)

\* Variant: a read that stamps last_reviewed.
MarkReviewed(ps) == [j \in DOMAIN ps |-> [ps[j] EXCEPT !.last_reviewed = now]]

\* What a GET handler writes to progress: both only SELECT from words.

ProgressAfterRead(ps) == ps

\* app.get("/api/words")
GetWords(r) ==
  /\ reqs[r].state = "sent"
  /\ IsList(reqs[r])
  /\ EventLoopIdle
  /\ reqs' = [reqs EXCEPT ![r] =
       IF storageUp
       THEN Reply([Start(@) EXCEPT !.seq = wordsSeq],
                  Resp("rows", ListWords(words, reverseTies), 0, 0))
       ELSE Throw(Start(@))]
  /\ progress' = ProgressAfterRead(progress)
  /\ UNCHANGED <<words, wordsSeq, progressSeq, now, storageUp, reverseTies, history, ui>>

\* app.get("/api/stats")
GetStats(r) ==
  /\ reqs[r].state = "sent"
  /\ IsStats(reqs[r])
  /\ EventLoopIdle
  /\ reqs' = [reqs EXCEPT ![r] =
       IF storageUp
       THEN Reply(Start(@), Resp("stats", <<>>, 0, CountWords(words)))
       ELSE Throw(Start(@))]
  /\ progress' = ProgressAfterRead(progress)
  /\ UNCHANGED <<words, wordsSeq, progressSeq, now, storageUp, reverseTies, history, ui>>

\* The row INSERT INTO words (...) VALUES (?, ?, ?, ?, ?, ?) adds.
WordRow(id, b, t) ==
  [id |-> id, word |-> b.word, context_sentence |-> b.context_sentence,
   meaning |-> b.meaning, phonetic_us |-> b.phonetic_us,
   phonetic_uk |-> b.phonetic_uk, image_url |-> b.image_url, created_at |-> t]

\* Variant: word_id bound to a rowid no insert has returned.
ProgressRowDangling(id, wordId, t) ==
  [id |-> id, word_id |-> wordId + 1, status |-> "new",
   last_reviewed |-> NullTime, next_review |-> t]

\* Variant: the first review scheduled one second after the insert.
ProgressRowScheduled(id, wordId, t) ==
  [id |-> id, word_id |-> wordId, status |-> "new", last_reviewed |-> NullTime,
   next_review |-> t + 1]

\* The row INSERT INTO progress (word_id, next_review) VALUES (?, datetime('now')) adds.
ProgressRow(id, wordId, t) ==
  [id |-> id, word_id |-> wordId, status |-> "new", last_reviewed |-> NullTime,
   next_review |-> t]

\* app.post("/api/words"), first statement: the insert into words.
PostWordsInsertWord(r) ==
  /\ reqs[r].state = "sent"
  /\ IsCreate(reqs[r])
  /\ EventLoopIdle
  /\ IF storageUp /\ Bindable(reqs[r].body) /\ NotNullOk(reqs[r].body)
     THEN LET id == NextRowid(wordsSeq) IN
          /\ words' = InsertWord(words, WordRow(id, reqs[r].body, now))
          /\ wordsSeq' = id
          /\ reqs' = [reqs EXCEPT ![r] =
               [Start(@) EXCEPT !.state = "running", !.info = id]]
     ELSE /\ reqs' = [reqs EXCEPT ![r] = Throw(Start(@))]
          /\ UNCHANGED <<words, wordsSeq>>
  /\ UNCHANGED <<progress, progressSeq, now, storageUp, reverseTies, history, ui>>

\* Variant: the two inserts in one transaction, rolled back on failure.
RollbackWord(ws, id) == SelectSeq(ws, LAMBDA w : w.id # id)

\* What a failed progress insert leaves in words: no transaction wraps the
\* two inserts, so the row of the first one stays.

WordsAfterFailedProgress(ws, id) == ws

\* app.post("/api/words"), second statement and the response.
PostWordsInsertProgress(r) ==
  /\ reqs[r].state = "running"
  /\ IF storageUp
     THEN LET id == NextRowid(progressSeq) IN
          /\ progress' = Append(progress, ProgressRow(id, reqs[r].info, now))
          /\ progressSeq' = id
          /\ reqs' = [reqs EXCEPT ![r] = Reply(@, Resp("id", <<>>, @.info, 0))]
          /\ UNCHANGED <<words>>
     ELSE /\ words' = WordsAfterFailedProgress(words, reqs[r].info)
          /\ reqs' = [reqs EXCEPT ![r] = Throw(@)]
          /\ UNCHANGED <<progress, progressSeq>>
  /\ UNCHANGED <<wordsSeq, now, storageUp, reverseTies, history, ui>>

(* ------------------------------- client ------------------------------- *)

\* saveWord(word) up to its await: POST /api/words.
SaveWord ==
  /\ Room(2)
  /\ \E w \in ClientWords :
       reqs' = Append(reqs, Request("saveWord", "POST", "/api/words", SaveBody(w)))
  /\ UNCHANGED <<store, now, storageUp, reverseTies, history, ui>>

\* fetchHistory() up to its await: GET /api/words.
FetchHistoryCall == Request("fetchHistory", "GET", "/api/words", NoBody)

\* useEffect(() => { fetchHistory(); }, []): once, when the App mounts.
Mount ==
  /\ Room(1)
  /\ \A r \in R : reqs[r].from # "mount"
  /\ reqs' = Append(reqs, [FetchHistoryCall EXCEPT !.from = "mount"])
  /\ UNCHANGED <<store, now, storageUp, reverseTies, history, ui>>

\* saveWord after its await: fetch resolved (whatever the status), so
\* fetchHistory() is called.
SaveWordResume(r) ==
  /\ reqs[r].from = "saveWord"
  /\ reqs[r].state = "replied"
  /\ reqs' = Append([reqs EXCEPT ![r].state = "done"], FetchHistoryCall)
  /\ UNCHANGED <<store, now, storageUp, reverseTies, history, ui>>

\* fetchHistory after its awaits: a JSON body is stored; the HTML error page
\* makes res.json() throw, which is caught and logged.
FetchHistoryResume(r) ==
  /\ reqs[r].from \in {"fetchHistory", "mount"}
  /\ reqs[r].state = "replied"
  /\ reqs' = [reqs EXCEPT ![r].state = "done"]
  /\ history' = IF reqs[r].resp.kind = "rows" THEN reqs[r].resp.rows ELSE history
  /\ UNCHANGED <<store, now, storageUp, reverseTies, ui>>

\* fetch rejects (the request or its response is lost); both callers catch
\* and log, and nothing is issued again.
NetworkError(r) ==
  /\ reqs[r].from # "api"
  /\ reqs[r].state \in {"sent", "replied"}
  /\ reqs' = [reqs EXCEPT ![r].state = "failed"]
  /\ UNCHANGED <<store, now, storageUp, reverseTies, history, ui>>

(* ---------------------------- client: video --------------------------- *)

\* Segments a processVideoUrl answer may hold.
MaxSubs == 4

\* Number(x) of a part that is no number, and arithmetic on undefined.
NaN == -1

\* A subtitle time "mm:ss" as the parts timeStr.split(':').map(Number) yields:
\* "00:05", "01:00", and "7", which has no second part.
TimeStrs == { <<0, 5>>, <<1, 0>>, <<7>> }

Seg(time, text) == [time |-> time, text |-> text]

\* Variant: no fallback, the list stays empty after a failure.
NoFallback == <<>>

\* The three mock segments of handleVideoProcess's catch block.
FallbackSubs ==
  << Seg(<<0, 5>>,  "Welcome to this English lesson."),
     Seg(<<0, 12>>, "Today we are going to talk about idioms."),
     Seg(<<0, 20>>, "It's a piece of cake, really.") >>

\* The arrays processVideoUrl may resolve with (JSON.parse(response.text || "[]")).
ProviderSubs ==
  UNION { [1..n -> {Seg(t, "a line") : t \in TimeStrs}] : n \in 0..MaxSubs }

\* state.playedSeconds of an onProgress event.
PlayedSeconds == {0, 5, 60}

\* const [m, s] = timeStr.split(':').map(Number); return m * 60 + s
timeToSeconds(timeStr) ==
  LET m == timeStr[1]
      s == IF Len(timeStr) >= 2 THEN timeStr[2] ELSE NaN
  IN  IF m = NaN \/ s = NaN THEN NaN ELSE m * 60 + s

\* a <= b on JavaScript numbers: false when either side is NaN.
LessEq(a, b) == a # NaN /\ b # NaN /\ a <= b

\* Variant: the loop without its break (the last segment that has started).
RECURSIVE BestIndexNoBreak(_, _, _, _)
BestIndexNoBreak(subs, currentTime, i, best) ==
  IF i >= Len(subs) THEN best
  ELSE BestIndexNoBreak(subs, currentTime, i + 1,
         IF LessEq(timeToSeconds(subs[i + 1].time), currentTime) THEN i ELSE best)

\* The loop of handleProgress from index i on, bestIndex being best so far.
RECURSIVE BestIndex(_, _, _, _)
BestIndex(subs, currentTime, i, best) ==
  IF i >= Len(subs) THEN best
  ELSE IF LessEq(timeToSeconds(subs[i + 1].time), currentTime)
       THEN BestIndex(subs, currentTime, i + 1, i)
       ELSE best

\* The URL input and the process button are rendered while there are no
\* subtitles; the player, its controls and the transcript otherwise.
InputShown  == videoSubtitles = <<>>
PlayerShown == videoSubtitles # <<>>

\* The word detail modal, a fixed full-screen layer over the page: while it is
\* rendered no click reaches the tab under it.
ModalShown == selectedWord # NoWord \/ isAnalyzingWord

\* onChange of the URL input.
SetVideoUrl ==
  /\ InputShown
  /\ ~ModalShown
  /\ \E u \in {"", "https://v"} : videoUrl' = u
  /\ UNCHANGED <<isVideoProcessing, videoSubtitles, currentSubIndex, videoCall>>
  /\ event' = Event("setVideoUrl", 0)
  /\ UNCHANGED <<store, now, storageUp, reverseTies, reqs, history, scan, audio, word>>

\* handleVideoProcess up to its await (the button is disabled while a call
\* is pending or the URL is empty).
HandleVideoProcess ==
  /\ InputShown
  /\ ~ModalShown
  /\ ~isVideoProcessing
  /\ videoUrl # ""
  /\ isVideoProcessing' = TRUE
  /\ videoSubtitles' = <<>>
  /\ videoCall' = "pending"
  /\ UNCHANGED <<videoUrl, currentSubIndex>>
  /\ event' = Event("handleVideoProcess", 0)
  /\ UNCHANGED <<store, now, storageUp, reverseTies, reqs, history, scan, audio, word>>

\* handleVideoProcess after its await, processVideoUrl resolved: try, finally.
ProcessVideoResolved ==
  /\ videoCall = "pending"
  /\ \E subs \in ProviderSubs : videoSubtitles' = subs
  /\ currentSubIndex' = 0
  /\ isVideoProcessing' = FALSE
  /\ videoCall' = "resolved"
  /\ UNCHANGED <<videoUrl>>
  /\ event' = Event("handleVideoProcess", 1)
  /\ UNCHANGED <<store, now, storageUp, reverseTies, reqs, history, scan, audio, word>>

\* handleVideoProcess after its await, processVideoUrl rejected (the request
\* failed or the answer is no JSON): catch, finally.
ProcessVideoRejected ==
  /\ videoCall = "pending"
  /\ videoSubtitles' = FallbackSubs
  /\ isVideoProcessing' = FALSE
  /\ videoCall' = "rejected"
  /\ UNCHANGED <<videoUrl, currentSubIndex>>
  /\ event' = Event("handleVideoProcess", 2)
  /\ UNCHANGED <<store, now, storageUp, reverseTies, reqs, history, scan, audio, word>>

\* The X button of the player.
ClosePlayer ==
  /\ PlayerShown
  /\ ~ModalShown
  /\ videoSubtitles' = <<>>
  /\ UNCHANGED <<videoUrl, isVideoProcessing, currentSubIndex, videoCall>>
  /\ event' = Event("closePlayer", 0)
  /\ UNCHANGED <<store, now, storageUp, reverseTies, reqs, history, scan, audio, word>>

\* handleProgress(state), called by the player.
HandleProgress ==
  /\ \E t \in PlayedSeconds :
       /\ currentSubIndex' =
            IF videoSubtitles = <<>> THEN currentSubIndex
            ELSE BestIndex(videoSubtitles, t, 0, 0)
       /\ event' = Event("handleProgress", t)
  /\ UNCHANGED <<videoUrl, isVideoProcessing, videoSubtitles, videoCall>>
  /\ UNCHANGED <<store, now, storageUp, reverseTies, reqs, history, scan, audio, word>>

\* The previous-subtitle button.
PreviousSub ==
  /\ PlayerShown
  /\ ~ModalShown
  /\ currentSubIndex' =
       (currentSubIndex - 1 + Len(videoSubtitles)) % Len(videoSubtitles)
  /\ UNCHANGED <<videoUrl, isVideoProcessing, videoSubtitles, videoCall>>
  /\ event' = Event("previousSub", 0)
  /\ UNCHANGED <<store, now, storageUp, reverseTies, reqs, history, scan, audio, word>>

\* The next-subtitle button.
NextSub ==
  /\ PlayerShown
  /\ ~ModalShown
  /\ currentSubIndex' = (currentSubIndex + 1) % Len(videoSubtitles)
  /\ UNCHANGED <<videoUrl, isVideoProcessing, videoSubtitles, videoCall>>
  /\ event' = Event("nextSub", 0)
  /\ UNCHANGED <<store, now, storageUp, reverseTies, reqs, history, scan, audio, word>>

\* A click on entry idx of the transcript.
TranscriptClick ==
  /\ PlayerShown
  /\ ~ModalShown
  /\ \E idx \in 0..(Len(videoSubtitles) - 1) :
       /\ currentSubIndex' = idx
       /\ event' = Event("transcriptClick", idx)
  /\ UNCHANGED <<videoUrl, isVideoProcessing, videoSubtitles, videoCall>>
  /\ UNCHANGED <<store, now, storageUp, reverseTies, reqs, history, scan, audio, word>>

(* ------------------------- client: subtitle word ---------------------- *)

\* Clicks on subtitle words over the lifetime of a run.
MaxClicks == 2

\* A click on a word of the subtitle overlay: where its handler stands, the
\* sentence it passed to analyzeWordInContext, and the analysis it got.
Click(stage, sentence, analysis) ==
  [stage |-> stage, sentence |-> sentence, analysis |-> analysis]

\* What generateVisualAnchor resolves with: a data URL, or "" without image.
AnchorUrls == {"data:dog", ""}

\* const wordData = { ...analysis, image_url: imageUrl }
WordData(analysis, imageUrl) == [analysis EXCEPT !.image_url = imageUrl]

\* saveWord(word) up to its await, as called from a handler.
SaveWordCall(w) == Request("saveWord", "POST", "/api/words", SaveBody(w))

\* Variant: the word saved as soon as its analysis is there.
SaveBeforeAnchor(rq, analysis) == Append(rq, SaveWordCall(WordData(analysis, "")))

\* The requests after analyzeWordInContext resolved: the handler goes on to
\* await generateVisualAnchor and issues nothing yet.
RequestsAfterAnalysis(rq, analysis) == rq

\* onClick of a word of the overlay, up to its first await.  The words are
\* those of videoSubtitles[currentSubIndex], when there is such a segment.
SubtitleWordClick ==
  /\ PlayerShown
  /\ ~ModalShown
  /\ currentSubIndex < Len(videoSubtitles)
  /\ Len(clicks) < MaxClicks
  /\ isPaused' = TRUE
  /\ isAnalyzingWord' = TRUE
  /\ clicks' = Append(clicks,
       Click("analysis", videoSubtitles[currentSubIndex + 1].text, NoWord))
  /\ event' = Event("wordClick", currentSubIndex)
  /\ UNCHANGED <<videoUrl, isVideoProcessing, videoSubtitles, currentSubIndex,
                 videoCall, selectedWord>>
  /\ UNCHANGED <<store, now, storageUp, reverseTies, reqs, history, scan, audio>>

\* analyzeWordInContext resolved: generateVisualAnchor is called.
WordAnalysisResolved(i) ==
  /\ clicks[i].stage = "analysis"
  /\ \E a \in ClientWords :
       /\ clicks' = [clicks EXCEPT ![i].stage = "anchor", ![i].analysis = a]
       /\ reqs' = RequestsAfterAnalysis(reqs, a)
  /\ event' = Event("analysisResolved", i)
  /\ UNCHANGED <<videoUrl, isVideoProcessing, videoSubtitles, currentSubIndex,
                 videoCall, selectedWord, isAnalyzingWord, isPaused>>
  /\ UNCHANGED <<store, now, storageUp, reverseTies, history, scan, audio>>

\* analyzeWordInContext rejected: catch, finally.
WordAnalysisRejected(i) ==
  /\ clicks[i].stage = "analysis"
  /\ clicks' = [clicks EXCEPT ![i].stage = "failed"]
  /\ isAnalyzingWord' = FALSE
  /\ event' = Event("analysisRejected", i)
  /\ UNCHANGED <<videoUrl, isVideoProcessing, videoSubtitles, currentSubIndex,
                 videoCall, selectedWord, isPaused>>
  /\ UNCHANGED <<store, now, storageUp, reverseTies, reqs, history, scan, audio>>

\* generateVisualAnchor resolved: setSelectedWord(wordData), saveWord(wordData)
\* up to its await, finally.
WordAnchorResolved(i) ==
  /\ clicks[i].stage = "anchor"
  /\ \E url \in AnchorUrls :
       LET wordData == WordData(clicks[i].analysis, url) IN
       /\ selectedWord' = wordData
       /\ reqs' = Append(reqs, SaveWordCall(wordData))
       /\ clicks' = [clicks EXCEPT ![i].stage = "done", ![i].analysis = wordData]
  /\ isAnalyzingWord' = FALSE
  /\ event' = Event("anchorResolved", i)
  /\ UNCHANGED <<videoUrl, isVideoProcessing, videoSubtitles, currentSubIndex,
                 videoCall, isPaused>>
  /\ UNCHANGED <<store, now, storageUp, reverseTies, history, scan, audio>>

\* generateVisualAnchor rejected: catch, finally.
WordAnchorRejected(i) ==
  /\ clicks[i].stage = "anchor"
  /\ clicks' = [clicks EXCEPT ![i].stage = "failed"]
  /\ isAnalyzingWord' = FALSE
  /\ event' = Event("anchorRejected", i)
  /\ UNCHANGED <<videoUrl, isVideoProcessing, videoSubtitles, currentSubIndex,
                 videoCall, selectedWord, isPaused>>
  /\ UNCHANGED <<store, now, storageUp, reverseTies, reqs, history, scan, audio>>

\* A click on the modal's backdrop or its X button.
CloseModal ==
  /\ ModalShown
  /\ selectedWord' = NoWord
  /\ event' = Event("closeModal", 0)
  /\ UNCHANGED <<videoUrl, isVideoProcessing, videoSubtitles, currentSubIndex,
                 videoCall, isAnalyzingWord, isPaused, clicks>>
  /\ UNCHANGED <<store, now, storageUp, reverseTies, reqs, history, scan, audio>>

\* The play/pause area in the middle of the player.
TogglePause ==
  /\ PlayerShown
  /\ ~ModalShown
  /\ isPaused' = ~isPaused
  /\ event' = Event("togglePause", 0)
  /\ UNCHANGED <<videoUrl, isVideoProcessing, videoSubtitles, currentSubIndex,
                 videoCall, selectedWord, isAnalyzingWord, clicks>>
  /\ UNCHANGED <<store, now, storageUp, reverseTies, reqs, history, scan, audio>>

(* ------------------------- client: screenshot scan -------------------- *)

\* Screenshots picked over the lifetime of a run.
MaxScans == 2

\* Words an image analysis may return.
MaxItems == 2

\* A scan: where handleFileUpload's reader.onload stands, how many words the
\* analysis returned, how many generateVisualAnchor calls are unsettled, and
\* how many AI calls it has issued.
Scan(stage, items, pending, calls) ==
  [stage |-> stage, items |-> items, pending |-> pending, calls |-> calls]

\* enrichedResults: each analysis item with its image_url.
Enriched(n) == [k \in 1..n |-> CHOOSE w \in ClientWords : TRUE]

\* Variant: the anchors settled so far are shown after a failure.
PartialResults(res, sc) == Enriched(sc.items - sc.pending)

\* What the catch block of reader.onload does to `results`: it only logs.
ResultsAfterFailure(res, sc) == res

\* The upload area with the file input is rendered while there are no results
\* and no scan is flagged.
UploadShown == results = <<>> /\ ~isScanning

\* handleFileUpload: a file was picked, reader.readAsDataURL(file).
HandleFileUpload ==
  /\ UploadShown
  /\ Len(scans) < MaxScans
  /\ scans' = Append(scans, Scan("reading", 0, 0, 0))
  /\ UNCHANGED <<isScanning, results>>
  /\ UNCHANGED <<store, now, storageUp, reverseTies, reqs, history, video, audio>>

\* reader.onload up to its first await: analyzeImageContext(base64).
ReaderLoaded(i) ==
  /\ scans[i].stage = "reading"
  /\ isScanning' = TRUE
  /\ scans' = [scans EXCEPT ![i] = Scan("analysis", 0, 0, 1)]
  /\ UNCHANGED <<results>>
  /\ UNCHANGED <<store, now, storageUp, reverseTies, reqs, history, video, audio>>

\* analyzeImageContext resolved with n words: one generateVisualAnchor call
\* per word is started; with no word Promise.all resolves at once.
AnalysisResolved(i) ==
  /\ scans[i].stage = "analysis"
  /\ \E n \in 0..MaxItems :
       IF n = 0
       THEN /\ results' = Enriched(0)
            /\ isScanning' = FALSE
            /\ scans' = [scans EXCEPT ![i] = Scan("done", 0, 0, @.calls)]
       ELSE /\ scans' = [scans EXCEPT ![i] = Scan("anchors", n, n, @.calls + n)]
            /\ UNCHANGED <<isScanning, results>>
  /\ UNCHANGED <<store, now, storageUp, reverseTies, reqs, history, video, audio>>

\* analyzeImageContext rejected: catch, finally.
AnalysisRejected(i) ==
  /\ scans[i].stage = "analysis"
  /\ results' = ResultsAfterFailure(results, scans[i])
  /\ isScanning' = FALSE
  /\ scans' = [scans EXCEPT ![i].stage = "failed"]
  /\ UNCHANGED <<store, now, storageUp, reverseTies, reqs, history, video, audio>>

\* One generateVisualAnchor call resolved (with a data URL or with ""); the
\* last one resolves Promise.all: setResults, finally.
AnchorResolved(i) ==
  /\ scans[i].stage = "anchors"
  /\ IF scans[i].pending = 1
     THEN /\ results' = Enriched(scans[i].items)
          /\ isScanning' = FALSE
          /\ scans' = [scans EXCEPT ![i].stage = "done", ![i].pending = 0]
     ELSE /\ scans' = [scans EXCEPT ![i].pending = @ - 1]
          /\ UNCHANGED <<isScanning, results>>
  /\ UNCHANGED <<store, now, storageUp, reverseTies, reqs, history, video, audio>>

\* One generateVisualAnchor call rejected: Promise.all rejects at once,
\* catch, finally.  The calls still unsettled have no continuation left.
AnchorRejected(i) ==
  /\ scans[i].stage = "anchors"
  /\ results' = ResultsAfterFailure(results, scans[i])
  /\ isScanning' = FALSE
  /\ scans' = [scans EXCEPT ![i].stage = "failed"]
  /\ UNCHANGED <<store, now, storageUp, reverseTies, reqs, history, video, audio>>

\* The Clear button over the results.
ClearResults ==
  /\ results # <<>>
  /\ results' = <<>>
  /\ UNCHANGED <<isScanning, scans>>
  /\ UNCHANGED <<store, now, storageUp, reverseTies, reqs, history, video, audio>>

(* ----------------------------- client: speech ------------------------- *)

\* playAudio calls that may be awaiting their speech or playing at one time.
MaxSpeech == 2

\* A playAudio call past its guard: its argument `loop`, and the values of
\* isLooping, accent and playbackSpeed in the closure it runs in.
Speech(stage, loop) ==
  [stage |-> stage, loop |-> loop, looping |-> isLooping, accent |-> accent,
   speed |-> playbackSpeed]

Remove(q, i) == SubSeq(q, 1, i - 1) \o SubSeq(q, i + 1, Len(q))

\* The accent button of the header.
ToggleAccent ==
  /\ accent' = IF accent = "US" THEN "UK" ELSE "US"
  /\ UNCHANGED <<isPlaying, isLooping, playbackSpeed, speech>>
  /\ UNCHANGED <<store, now, storageUp, reverseTies, reqs, history, video, scan>>

\* The speed buttons: 1 -> 0.75 -> 0.5 -> 1.
CycleSpeed ==
  /\ playbackSpeed' = IF playbackSpeed = 100 THEN 75
                      ELSE IF playbackSpeed = 75 THEN 50 ELSE 100
  /\ UNCHANGED <<isPlaying, isLooping, accent, speech>>
  /\ UNCHANGED <<store, now, storageUp, reverseTies, reqs, history, video, scan>>

\* The LOOP button of the player.
ToggleLoop ==
  /\ isLooping' = ~isLooping
  /\ UNCHANGED <<isPlaying, accent, playbackSpeed, speech>>
  /\ UNCHANGED <<store, now, storageUp, reverseTies, reqs, history, video, scan>>

\* Variant: playAudio without its guard.
NeverReturns(loop) == FALSE

\* if (isPlaying && !loop) return;
PlayAudioReturns(loop) == isPlaying /\ ~loop

\* playAudio(text) from a button, up to its await: it returns at once while
\* isPlaying is set, else it sets isPlaying and calls generateSpeech.
PlayAudio ==
  /\ IF PlayAudioReturns(FALSE)
     THEN UNCHANGED <<isPlaying, speech>>
     ELSE /\ Len(speech) < MaxSpeech
          /\ isPlaying' = TRUE
          /\ speech' = Append(speech, Speech("request", FALSE))
  /\ UNCHANGED <<isLooping, accent, playbackSpeed>>
  /\ UNCHANGED <<store, now, storageUp, reverseTies, reqs, history, video, scan>>

\* generateSpeech resolved with audio data: the Audio element is built and
\* audio.play() is called.
SpeechData(i) ==
  /\ speech[i].stage = "request"
  /\ speech' = [speech EXCEPT ![i].stage = "playing"]
  /\ UNCHANGED <<isPlaying, isLooping, accent, playbackSpeed>>
  /\ UNCHANGED <<store, now, storageUp, reverseTies, reqs, history, video, scan>>

\* generateSpeech resolved with "" (the answer holds no inline data): the
\* if (base64Audio) block is skipped and playAudio returns.
SpeechNoData(i) ==
  /\ speech[i].stage = "request"
  /\ speech' = Remove(speech, i)
  /\ UNCHANGED <<isPlaying, isLooping, accent, playbackSpeed>>
  /\ UNCHANGED <<store, now, storageUp, reverseTies, reqs, history, video, scan>>

\* generateSpeech rejected, or decoding its data threw: catch.
SpeechThrew(i) ==
  /\ speech[i].stage = "request"
  /\ speech' = Remove(speech, i)
  /\ isPlaying' = FALSE
  /\ UNCHANGED <<isLooping, accent, playbackSpeed>>
  /\ UNCHANGED <<store, now, storageUp, reverseTies, reqs, history, video, scan>>

\* audio.play() rejected.
PlayFailed(i) ==
  /\ speech[i].stage = "playing"
  /\ speech' = Remove(speech, i)
  /\ isPlaying' = FALSE
  /\ UNCHANGED <<isLooping, accent, playbackSpeed>>
  /\ UNCHANGED <<store, now, storageUp, reverseTies, reqs, history, video, scan>>

\* audio.onended: with the closure's isLooping set, playAudio(text, true) of
\* the same closure runs (its guard passes, it sets isPlaying and calls
\* generateSpeech again); else isPlaying is cleared.
AudioEnded(i) ==
  /\ speech[i].stage = "playing"
  /\ IF speech[i].looping
     THEN /\ isPlaying' = TRUE
          /\ speech' = [speech EXCEPT ![i].stage = "request", ![i].loop = TRUE]
     ELSE /\ isPlaying' = FALSE
          /\ speech' = Remove(speech, i)
  /\ UNCHANGED <<isLooping, accent, playbackSpeed>>
  /\ UNCHANGED <<store, now, storageUp, reverseTies, reqs, history, video, scan>>

(* ------------------------------- specs -------------------------------- *)

Environment ==
  \/ Tick
  \/ StorageFail
  \/ StorageRecover

Server ==
  \/ \E r \in R : GetWords(r)
  \/ \E r \in R : GetStats(r)
  \/ \E r \in R : PostWordsInsertWord(r)
  \/ \E r \in R : PostWordsInsertProgress(r)

\* The store and its routes under direct callers of the API.
Next ==
  \/ Environment
  \/ Server
  \/ ApiListWords
  \/ ApiCreateWord
  \/ ApiGetStats

Spec == Init /\ [][Next]_vars

\* The same, with creations whose surface text is empty, null or missing.
NextBlank ==
  \/ Environment
  \/ Server
  \/ ApiListWords
  \/ ApiGetStats
  \/ ApiCreateBlank

SpecBlank == Init /\ [][NextBlank]_vars

\* The routes under the client (saveWord, fetchHistory) and a stats caller.
NextClient ==
  \/ Environment
  \/ Server
  \/ ApiGetStats
  \/ SaveWord
  \/ Mount
  \/ \E r \in R : SaveWordResume(r)
  \/ \E r \in R : FetchHistoryResume(r)
  \/ \E r \in R : NetworkError(r)

SpecClient == Init /\ [][NextClient]_vars

\* The video tab: URL input, processing, player, transcript.
NextVideo ==
  \/ SetVideoUrl
  \/ HandleVideoProcess
  \/ ProcessVideoResolved
  \/ ProcessVideoRejected
  \/ ClosePlayer
  \/ HandleProgress
  \/ PreviousSub
  \/ NextSub
  \/ TranscriptClick

SpecVideo == Init /\ [][NextVideo]_vars

\* The player over the fallback segments and the clicks on subtitle words.
NextWord ==
  \/ SetVideoUrl
  \/ HandleVideoProcess
  \/ ProcessVideoRejected
  \/ NextSub
  \/ ClosePlayer
  \/ SubtitleWordClick
  \/ \E i \in DOMAIN clicks : WordAnalysisResolved(i)
  \/ \E i \in DOMAIN clicks : WordAnalysisRejected(i)
  \/ \E i \in DOMAIN clicks : WordAnchorResolved(i)
  \/ \E i \in DOMAIN clicks : WordAnchorRejected(i)
  \/ CloseModal
  \/ TogglePause

SpecWord == Init /\ [][NextWord]_vars

\* The scan tab: picking screenshots, their analysis, the results.
NextScan ==
  \/ HandleFileUpload
  \/ \E i \in DOMAIN scans : ReaderLoaded(i)
  \/ \E i \in DOMAIN scans : AnalysisResolved(i)
  \/ \E i \in DOMAIN scans : AnalysisRejected(i)
  \/ \E i \in DOMAIN scans : AnchorResolved(i)
  \/ \E i \in DOMAIN scans : AnchorRejected(i)
  \/ ClearResults

SpecScan == Init /\ [][NextScan]_vars

\* Speech: the accent, speed and loop buttons and playAudio.
NextAudio ==
  \/ ToggleAccent
  \/ CycleSpeed
  \/ ToggleLoop
  \/ PlayAudio
  \/ \E i \in DOMAIN speech : SpeechData(i)
  \/ \E i \in DOMAIN speech : SpeechNoData(i)
  \/ \E i \in DOMAIN speech : SpeechThrew(i)
  \/ \E i \in DOMAIN speech : PlayFailed(i)
  \/ \E i \in DOMAIN speech : AudioEnded(i)

SpecAudio == Init /\ [][NextAudio]_vars

(* ------------------------- reading the log ---------------------------- *)

Ok(q)     == q.state \in {"replied", "done"} /\ q.status = 200
Failed(q) == q.state \in {"replied", "done"} /\ q.status = 500

\* The handler answers request r in this step.
RepliedNow(r) ==
  /\ reqs[r].state \in {"sent", "running"}
  /\ reqs'[r].state = "replied"

\* A handler starts on request r in this step.
HandlerStarts(r) ==
  /\ reqs[r].state = "sent"
  /\ reqs'[r].attempts = reqs[r].attempts + 1

Ids(rows) == {rows[i].id : i \in 1..Len(rows)}

ProgressOf(id) == {j \in 1..Len(progress) : progress[j].word_id = id}

\* Create requests that got an identifier back.
Created == {c \in R : IsCreate(reqs[c]) /\ Ok(reqs[c])}

\* Create requests whose word insert succeeded and whose progress insert threw.
HalfCreated == {c \in R : IsCreate(reqs[c]) /\ Failed(reqs[c]) /\ reqs[c].info # 0}

(* ------------------------------ claims -------------------------------- *)

\* C1: a list words that follows a successful create word (no other insert in
\* between) returns the Word just created as its first element, and that
\* Word's identifier differs from every identifier assigned before.
C1_NewestFirst ==
  \A l \in R : \A c \in Created :
    /\ IsList(reqs[l]) /\ Ok(reqs[l])
    /\ reqs[c].resp.id = wordsSeq
    /\ reqs[l].seq = wordsSeq
    => /\ reqs[l].resp.rows # <<>>
       /\ reqs[l].resp.rows[1].id = reqs[c].resp.id
       /\ \A i \in 1..Len(words) - 1 : words[i].id # reqs[c].resp.id

\* C2: once no create word request is between its statements, every Word row
\* has exactly one Progress row, with status 'new' and a non-null next_review
\* equal to the Word's created_at.
C2_OneProgressPerWord ==
  EventLoopIdle =>
    \A i \in 1..Len(words) :
      /\ Cardinality(ProgressOf(words[i].id)) = 1
      /\ \A j \in ProgressOf(words[i].id) :
           /\ progress[j].status = "new"
           /\ progress[j].next_review # NullTime
           /\ progress[j].next_review = words[i].created_at

\* C3: the count get stats returns is the number of Word rows in the store,
\* and so is the number of elements list words returns.
C3_StatsCountsWords ==
  [][\A r \in R :
       RepliedNow(r) /\ reqs'[r].status = 200 =>
         /\ IsStats(reqs[r]) => reqs'[r].resp.totalWords = Len(words)
         /\ IsList(reqs[r])  => Len(reqs'[r].resp.rows) = Len(words)]_vars

C3_Witness ==
  \E s \in R : \E l \in R :
    /\ IsStats(reqs[s]) /\ Ok(reqs[s]) /\ reqs[s].resp.totalWords = 1
    /\ IsList(reqs[l]) /\ Ok(reqs[l]) /\ Len(reqs[l].resp.rows) = 1
    /\ Len(words) = 1

\* C4: two create word requests, racing or not, never receive the same
\* identifier, and a list words answered after both returned contains both.
C4_RacingCreates ==
  [][/\ \A c1 \in Created' : \A c2 \in Created' :
          c1 # c2 => reqs'[c1].resp.id # reqs'[c2].resp.id
     /\ \A l \in R :
          RepliedNow(l) /\ IsList(reqs[l]) /\ reqs'[l].status = 200 =>
            \A c \in Created : reqs[c].resp.id \in Ids(reqs'[l].resp.rows)]_vars

\* Two creations answered in the opposite order of their issue (so both were
\* in flight together), and a later list holding both.
C4_Witness ==
  \E c1 \in Created : \E c2 \in Created : \E l \in R :
    /\ c1 < c2
    /\ reqs[c1].resp.id > reqs[c2].resp.id
    /\ IsList(reqs[l]) /\ Ok(reqs[l])
    /\ {reqs[c1].resp.id, reqs[c2].resp.id} \subseteq Ids(reqs[l].resp.rows)

\* C5: the first identifier of an empty store is 1, identifiers strictly
\* increase in order of insertion, and no two Words or two responses ever
\* carry the same one.
C5_IdsIncrease ==
  /\ words # <<>> => words[1].id = 1
  /\ \A i \in 1..Len(words) : \A j \in 1..Len(words) :
       i < j => words[i].id < words[j].id
  /\ \A i \in 1..Len(words) : words[i].id <= wordsSeq
  /\ \A c \in Created :
       /\ reqs[c].resp.id \in Ids(words)
       /\ \A d \in Created : c # d => reqs[c].resp.id # reqs[d].resp.id

C5_Witness ==
  \E c \in Created : \E d \in Created :
    reqs[c].resp.id = 1 /\ reqs[d].resp.id = 2

\* C6: a create word whose surface text is empty, null or missing is answered
\* with an error (any error answer is taken as the rejection) and has added no
\* Word row and no Progress row.
C6_BlankRejected ==
  \A r \in R :
    /\ IsCreate(reqs[r])
    /\ reqs[r].body.word \in {"", Null, Undefined}
    /\ reqs[r].state \in {"replied", "done"}
    => /\ Failed(reqs[r])
       /\ reqs[r].info = 0
       /\ \A i \in 1..Len(words) : words[i].word # reqs[r].body.word

\* C7: while one create word is between its two inserts no handler of another
\* request starts, so as long as no progress insert has failed, every handler
\* starts in a state where each Word row has its Progress row.
C7_InsertsNotInterleaved ==
  [][\A r \in R :
       HandlerStarts(r) =>
         /\ \A o \in R : reqs[o].state # "running"
         /\ HalfCreated = {} =>
              \A i \in 1..Len(words) : ProgressOf(words[i].id) # {}]_vars

\* A create word between its inserts while another request waits to be handled.
C7_Witness ==
  \E r \in R : \E o \in R :
    /\ reqs[r].state = "running"
    /\ ProgressOf(reqs[r].info) = {}
    /\ reqs[o].state = "sent"

\* C8: a create word whose progress insert failed after its word insert was
\* answered with an error and no identifier; its Word row is in the store
\* without a Progress row from then on, every later list words returns it and
\* every later get stats counts it.
C8_HalfCreatedStays ==
  [][/\ \A c \in HalfCreated' :
          /\ reqs'[c].resp = ErrorPage
          /\ reqs'[c].info \in Ids(words')
          /\ \A j \in 1..Len(progress') : progress'[j].word_id # reqs'[c].info
     /\ \A c \in HalfCreated : \A r \in R :
          RepliedNow(r) /\ reqs'[r].status = 200 =>
            /\ IsList(reqs[r]) => reqs[c].info \in Ids(reqs'[r].resp.rows)
            /\ IsStats(reqs[r]) =>
                 reqs'[r].resp.totalWords = Cardinality(Ids(words))]_vars

C8_Witness ==
  \E c \in HalfCreated : \E l \in R :
    /\ IsList(reqs[l]) /\ Ok(reqs[l])
    /\ reqs[c].info \in Ids(reqs[l].resp.rows)
    /\ ProgressOf(reqs[c].info) = {}

\* C9: a handler that runs while the storage is unavailable answers 500 and
\* leaves both tables as they were; no request is handled more than once; and
\* the client issues nothing again after a failure (the only request a
\* continuation issues is saveWord's GET /api/words).
C9_StorageUnavailable ==
  [][/\ \A r \in R :
          /\ ~storageUp
          /\ reqs[r].state \in {"sent", "running"}
          /\ reqs'[r] # reqs[r]
          /\ reqs'[r].state # "failed"
          => /\ reqs'[r].state = "replied"
             /\ reqs'[r].status = 500
             /\ reqs'[r].attempts = 1
             /\ words' = words
             /\ progress' = progress
     /\ \A r \in DOMAIN reqs' : reqs'[r].attempts <= 1
     /\ \A r \in R :
          reqs'[r] # reqs[r] /\ Len(reqs') > Len(reqs) =>
            /\ reqs[r].from = "saveWord" /\ IsCreate(reqs[r])
            /\ reqs'[Len(reqs')] = FetchHistoryCall]_vars

\* With the storage down, a saveWord POST, the GET that follows it and a
\* get stats have each been answered 500, and the store is still empty.
C9_Witness ==
  /\ ~storageUp
  /\ words = <<>> /\ progress = <<>>
  /\ \E c \in R : \E l \in R : \E s \in R :
       /\ reqs[c].from = "saveWord" /\ reqs[c].state = "done" /\ reqs[c].status = 500
       /\ reqs[l].from = "fetchHistory" /\ Failed(reqs[l])
       /\ IsStats(reqs[s]) /\ Failed(reqs[s])

\* C10: list words and get stats change no Word and no Progress row, and two
\* list words answered with no word insert between them return the same
\* sequence of Words.
C10_ReadsChangeNothing ==
  [][\A r \in R :
       RepliedNow(r) /\ (IsList(reqs[r]) \/ IsStats(reqs[r])) =>
         /\ words' = words
         /\ progress' = progress
         /\ \A l \in R :
              /\ IsList(reqs[r]) /\ reqs'[r].status = 200
              /\ IsList(reqs[l]) /\ Ok(reqs[l])
              /\ reqs[l].seq = reqs'[r].seq
              => reqs'[r].resp.rows = reqs[l].resp.rows]_vars

\* Two list words over the same non-empty store, the clock having moved on
\* between them.
C10_Witness ==
  \E l1 \in R : \E l2 \in R :
    /\ l1 # l2
    /\ IsList(reqs[l1]) /\ Ok(reqs[l1])
    /\ IsList(reqs[l2]) /\ Ok(reqs[l2])
    /\ reqs[l1].seq = reqs[l2].seq
    /\ reqs[l1].resp.rows # <<>>
    /\ progress # <<>>

\* C11: list words returns every stored Word exactly once, nothing filtered
\* out and nothing cut off, and no Word comes after a Word whose created_at is
\* strictly earlier.  (A list answered when sqlite_sequence was n read the
\* first n rows of words.)
C11_ListsEveryWordOnce ==
  \A l \in R :
    IsList(reqs[l]) /\ Ok(reqs[l]) =>
      LET rows == reqs[l].resp.rows IN
      /\ Len(rows) = reqs[l].seq
      /\ \A i \in 1..reqs[l].seq :
           Cardinality({k \in 1..Len(rows) : rows[k] = words[i]}) = 1
      /\ \A a \in 1..Len(rows) : \A b \in 1..Len(rows) :
           a < b => ~(rows[a].created_at < rows[b].created_at)

\* A list of two Words created in different seconds.
C11_Witness ==
  \E l \in R :
    /\ IsList(reqs[l]) /\ Ok(reqs[l])
    /\ Len(reqs[l].resp.rows) = 2
    /\ reqs[l].resp.rows[1].created_at > reqs[l].resp.rows[2].created_at

\* C12: a create word whose surface text is already stored is handled like
\* any other: with the storage available its word insert adds a row with an
\* identifier no row had, and its progress insert adds that row's Progress row
\* and answers 200 with the identifier.
C12_DuplicatesCreateSeparateRows ==
  [][\A r \in R :
       /\ IsCreate(reqs[r])
       /\ storageUp
       /\ reqs'[r] # reqs[r]
       /\ \E i \in 1..Len(words) :
            words[i].word = reqs[r].body.word /\ words[i].id # reqs[r].info
       => /\ reqs[r].state = "sent" =>
               /\ reqs'[r].state = "running"
               /\ Len(words') = Len(words) + 1
               /\ words'[Len(words')].id = reqs'[r].info
               /\ words'[Len(words')].word = reqs[r].body.word
               /\ reqs'[r].info \notin Ids(words)
               /\ \A i \in 1..Len(words) : words'[i] = words[i]
          /\ reqs[r].state = "running" =>
               /\ reqs'[r].status = 200
               /\ reqs'[r].resp.id = reqs[r].info
               /\ Len(progress') = Len(progress) + 1
               /\ progress'[Len(progress')].word_id = reqs[r].info
               /\ \A j \in 1..Len(progress) :
                    progress[j].word_id # reqs[r].info]_vars

\* Two creations of the same surface text answered with different identifiers,
\* each of the two Words with a Progress row of its own.
C12_Witness ==
  \E c \in Created : \E d \in Created :
    /\ c # d
    /\ reqs[c].body.word = reqs[d].body.word
    /\ reqs[c].resp.id # reqs[d].resp.id
    /\ Cardinality(ProgressOf(reqs[c].resp.id)) = 1
    /\ Cardinality(ProgressOf(reqs[d].resp.id)) = 1
    /\ ProgressOf(reqs[c].resp.id) # ProgressOf(reqs[d].resp.id)

\* C13: no step removes or changes a Word row (identifier, fields and
\* created_at stay as inserted) and no step removes a Progress row.
C13_RowsStay ==
  [][/\ Len(words') >= Len(words)
     /\ \A i \in 1..Len(words) : words'[i] = words[i]
     /\ Len(progress') >= Len(progress)
     /\ \A j \in 1..Len(progress) :
          /\ progress'[j].id = progress[j].id
          /\ progress'[j].word_id = progress[j].word_id]_vars

\* A Word with its Progress row, a second creation of the same surface text
\* after it, and a list and a failed request handled over them.
C13_Witness ==
  /\ Len(words) = 2 /\ Len(progress) >= 1
  /\ words[1].word = words[2].word
  /\ \E r \in R : Failed(reqs[r])

\* C14: every Progress row has status 'new' and a null last_reviewed, and its
\* next_review is the time of its insert, in every state from then on.
C14_ProgressInert ==
  [][\A j \in 1..Len(progress') :
       /\ progress'[j].status = "new"
       /\ progress'[j].last_reviewed = NullTime
       /\ progress'[j].next_review =
            IF j <= Len(progress) THEN progress[j].next_review ELSE now]_vars

\* A Progress row read over (list and stats) in a later second than its insert.
C14_Witness ==
  /\ \E j \in 1..Len(progress) : progress[j].next_review < now
  /\ \E l \in R : IsList(reqs[l]) /\ Ok(reqs[l]) /\ reqs[l].resp.rows # <<>>

\* C15: a Word row that list words returns for a word the client saved has
\* word, meaning, phonetic_us, phonetic_uk and image_url equal to the fields of
\* the analysis result, and context_sentence equal to its context_explanation.
C15_SavedFieldsKept ==
  \A c \in Created : \A l \in R :
    /\ reqs[c].from = "saveWord"
    /\ IsList(reqs[l]) /\ Ok(reqs[l])
    => \A k \in 1..Len(reqs[l].resp.rows) :
         LET row == reqs[l].resp.rows[k] IN
         row.id = reqs[c].resp.id =>
           \E w \in ClientWords :
             /\ row.word = w.word
             /\ row.meaning = w.meaning
             /\ row.phonetic_us = w.phonetic_us
             /\ row.phonetic_uk = w.phonetic_uk
             /\ row.image_url = w.image_url
             /\ row.context_sentence = w.context_explanation

\* The client's history holds the row of a word it saved.
C15_Witness ==
  /\ history # <<>>
  /\ \E c \in Created :
       reqs[c].from = "saveWord" /\ history[1].id = reqs[c].resp.id

\* C18: once every request of saveWord and fetchHistory has completed with a
\* 200 answer (none is outstanding, none failed), the client's history is what
\* list words returns for the store as it is.
C18_HistoryMatchesServer ==
  (\A r \in R :
     reqs[r].from \in {"saveWord", "fetchHistory", "mount"} =>
       reqs[r].state = "done" /\ reqs[r].status = 200)
  => history = ListWords(words, reverseTies)

\* C16: when the video-link analysis call of handleVideoProcess (run with a
\* non-empty URL) fails, the subtitle list is the fixed fallback set of
\* segments, which is not empty, and isVideoProcessing is false.
C16_FailureGivesFallback ==
  [][videoCall = "pending" /\ videoCall' = "rejected" =>
       /\ videoSubtitles' = FallbackSubs
       /\ Len(videoSubtitles') = 3
       /\ \A i \in 1..3 : videoSubtitles'[i].time \in {<<0, 5>>, <<0, 12>>, <<0, 20>>}
       /\ isVideoProcessing' = FALSE]_vars

\* The state right after a failed call: the player shows the three segments.
C16_Witness ==
  /\ videoCall = "rejected"
  /\ Len(videoSubtitles) = 3
  /\ ~isVideoProcessing

\* C19: whenever the subtitle list is not empty, currentSubIndex is an index
\* into it.
C19_IndexInRange ==
  videoSubtitles # <<>> =>
    0 <= currentSubIndex /\ currentSubIndex < Len(videoSubtitles)

\* C17: in the step in which the image analysis call or one visual-anchor
\* generation of a scan fails, isScanning becomes false, results stays as it
\* was, and the scan issues no further AI call, then or later; no other scan
\* is touched.
C17_ScanFailureLeavesResults ==
  [][\A i \in DOMAIN scans :
       /\ scans[i].stage = "failed" => scans'[i] = scans[i]
       /\ scans[i].stage \in {"analysis", "anchors"} /\ scans'[i].stage = "failed" =>
            /\ isScanning' = FALSE
            /\ results' = results
            /\ scans'[i].calls = scans[i].calls
            /\ Len(scans') = Len(scans)
            /\ \A j \in DOMAIN scans : j # i => scans'[j] = scans[j]]_vars

\* One scan failed on its second anchor while the results of another scan
\* were on display.
C17_Witness ==
  \E i \in DOMAIN scans : \E j \in DOMAIN scans :
    /\ scans[i].stage = "failed" /\ scans[i].items = 2 /\ scans[i].pending = 1
    /\ scans[j].stage = "done"
    /\ results # <<>>
    /\ ~isScanning

\* C20: a playAudio call made with looping off leaves isPlaying false when it
\* is over, whichever way it ends: the playback ended or failed, the speech
\* request threw, or it returned no audio data.
C20_IsPlayingCleared ==
  [][\A i \in DOMAIN speech :
       /\ ~speech[i].loop
       /\ ~speech[i].looping
       /\ speech' = Remove(speech, i)
       => isPlaying' = FALSE]_vars

\* C23: in every state the word_id of every Progress row is the identifier of
\* a Word row in the store.
C23_ProgressRefersToWord ==
  \A j \in 1..Len(progress) : progress[j].word_id \in Ids(words)

\* A Progress row whose own rowid differs from its word_id (an earlier create
\* left a Word without Progress row), so the reference is not the row number.
C23_Witness ==
  /\ HalfCreated # {}
  /\ \E j \in 1..Len(progress) :
       /\ progress[j].id # progress[j].word_id
       /\ progress[j].word_id \in Ids(words)

\* C22: handleProgress with a played time over a non-empty subtitle list sets
\* currentSubIndex to the largest index i such that each of the segments 0..i
\* starts at or before the played time, and to 0 when the first segment
\* starts later; over an empty list it leaves the index as it is.
C22_ProgressPicksPrefixEnd ==
  [][event'.name = "handleProgress" =>
       LET t == event'.arg
           Started(k) == LessEq(timeToSeconds(videoSubtitles[k + 1].time), t)
           upTo == {i \in 0..(Len(videoSubtitles) - 1) :
                      \A k \in 0..i : Started(k)}
       IN  /\ videoSubtitles' = videoSubtitles
           /\ videoSubtitles = <<>> => currentSubIndex' = currentSubIndex
           /\ videoSubtitles # <<>> /\ upTo = {} => currentSubIndex' = 0
           /\ upTo # {} =>
                /\ currentSubIndex' \in upTo
                /\ \A i \in upTo : i <= currentSubIndex']_vars

\* A progress event has left the index on segment 1 of a list in which
\* segment 2 has not started and a segment behind it has.
C22_Witness ==
  /\ event.name = "handleProgress"
  /\ currentSubIndex = 1
  /\ Len(videoSubtitles) = 4
  /\ ~LessEq(timeToSeconds(videoSubtitles[3].time), event.arg)
  /\ LessEq(timeToSeconds(videoSubtitles[4].time), event.arg)

\* Speech requests in flight that were made with loop false.
NonLooping(q) == {i \in DOMAIN q : q[i].stage = "request" /\ ~q[i].loop}

\* C24: while isPlaying is true no step issues a speech request with loop
\* false (a playAudio call made then returns at once and changes nothing),
\* so at most one such request is in flight in any state.
C24_OneNonLoopingRequest ==
  [][/\ isPlaying =>
          Cardinality(NonLooping(speech')) <= Cardinality(NonLooping(speech))
     /\ Cardinality(NonLooping(speech')) <= 1]_vars

\* A request made with loop false is in flight and isPlaying is set: the
\* guard alone keeps a further playAudio(text) from issuing a second one.
C24_Witness ==
  /\ isPlaying
  /\ Cardinality(NonLooping(speech)) = 1
  /\ Len(speech) < MaxSpeech

\* C21: after a click on a subtitle word, generateVisualAnchor is called only
\* once the word analysis has succeeded and POST /api/words is issued only
\* once the anchor generation has succeeded too, in the same step as
\* setSelectedWord; a click whose analysis or anchor generation fails issues
\* no request, then or later, and leaves selectedWord as it was; and when the
\* handler is over, either way, isAnalyzingWord is false.
C21_SaveAfterAnalysisAndAnchor ==
  [][/\ Len(reqs') >= Len(reqs)
     /\ Len(reqs') > Len(reqs) =>
          \E i \in DOMAIN clicks :
            /\ clicks[i].stage = "anchor" /\ clicks'[i].stage = "done"
            /\ Len(reqs') = Len(reqs) + 1
            /\ IsCreate(reqs'[Len(reqs')])
            /\ reqs'[Len(reqs')].body.word = clicks'[i].analysis.word
            /\ selectedWord' = clicks'[i].analysis
     /\ \A i \in DOMAIN clicks :
          /\ clicks[i].stage \in {"failed", "done"} => clicks'[i] = clicks[i]
          /\ clicks[i].stage = "analysis" =>
               clicks'[i].stage \in {"analysis", "anchor", "failed"}
          /\ clicks[i].stage = "anchor" /\ clicks'[i].stage = "done" =>
               /\ Len(reqs') = Len(reqs) + 1
               /\ ~isAnalyzingWord'
          /\ clicks[i].stage # "failed" /\ clicks'[i].stage = "failed" =>
               /\ reqs' = reqs
               /\ selectedWord' = selectedWord
               /\ ~isAnalyzingWord']_vars

\* One click failed at its anchor generation after another had saved its
\* word: one POST was issued, and the modal shows no analysis in progress.
C21_Witness ==
  \E i \in DOMAIN clicks : \E j \in DOMAIN clicks :
    /\ clicks[i].stage = "done"
    /\ clicks[j].stage = "failed" /\ clicks[j].analysis # NoWord
    /\ Len(reqs) = 1 /\ IsCreate(reqs[1])
    /\ ~isAnalyzingWord

====
